---- MODULE Spec2Model ----
(***************************************************************************)
(* A model of the embeddable chat/voice widget (src/src/widget.tsx) and of *)
(* the relay endpoint it talks to (src/unnamed/part_000, src/README.md).   *)
(*                                                                         *)
(* The widget is a React function component.  Its hook state (useState) is *)
(* held in the variables cfg, open, mode, lang, input, messages, loading   *)
(* and listening.  Event handlers are closures created by a render: they   *)
(* read the values of the render that created them (the variable view),    *)
(* while functional updates (setX(prev => ...)) act on the hook state.     *)
(* An update made inside a DOM event handler is rendered before the next   *)
(* event; an update made from a promise continuation, from a speech-engine *)
(* callback or from the host's control object is rendered by a later task  *)
(* (the action Render).                                                    *)
(***************************************************************************)
EXTENDS Integers, Sequences, FiniteSets, TLC

(***************************************************************************)
(* Bounds of the model.                                                    *)
(***************************************************************************)
\* Accepted submissions in one run.
MaxTurns == 2
\* Length, in chunks, of a text the user types.
MaxLen == 1
\* Recognition sessions left running by a replaced recognition object.
MaxOrphans == 1
\* Hook-state values changed outside a DOM event handler and not yet rendered.
MaxStale == 1
MaxMounts == 4

(***************************************************************************)
(* Texts.  A text is a sequence of chunks: the chunk " " is one whitespace *)
(* character, any other chunk is a run of non-whitespace characters.       *)
(***************************************************************************)
Space == " "
Chunks == {Space, "a"}
EmptyText == << >>

RECURSIVE TrimStart(_)
TrimStart(s) ==
  IF s # << >> /\ Head(s) = Space THEN TrimStart(Tail(s)) ELSE s

RECURSIVE TrimEnd(_)
TrimEnd(s) ==
  IF s # << >> /\ s[Len(s)] = Space THEN TrimEnd(SubSeq(s, 1, Len(s) - 1)) ELSE s

\* String.prototype.trim
Trim(s) == TrimEnd(TrimStart(s))

\* JavaScript truthiness of a string: the empty string is falsy.
Truthy(s) == s # EmptyText

RECURSIVE TextsUpTo(_)
TextsUpTo(n) ==
  IF n = 0 THEN {EmptyText}
  ELSE LET shorter == TextsUpTo(n - 1)
       IN  shorter \cup {Append(t, c) : t \in shorter, c \in Chunks}

TypedTexts == TextsUpTo(MaxLen)

(***************************************************************************)
(* Configuration objects.  A JavaScript object is a function from the keys *)
(* it holds to their values; a key the host omits is not in its DOMAIN.    *)
(* Undefined is the value of the default context and of a read of a key an *)
(* object does not hold.                                                   *)
(***************************************************************************)
Undefined == "undefined"
EmptyObj == [k \in {} |-> Undefined]

\* o.k ?? d: the default when the object has no such key.  (A key an object of
\* the model holds is never null or undefined, the default context excepted.)
OrDefault(o, k, d) == IF k \in DOMAIN o THEN o[k] ELSE d

\* { ...a, ...b }: a shallow merge, b's keys win.
Spread(a, b) ==
  [k \in (DOMAIN a) \cup (DOMAIN b) |-> IF k \in DOMAIN b THEN b[k] ELSE a[k]]

defaultConfig ==
  [ position        |-> "bottom-right",
    theme           |-> [ primaryColor    |-> "#4F46E5",
                          backgroundColor |-> "#ffffff",
                          textColor       |-> "#111827",
                          fontFamily      |->
      "Inter, system-ui, -apple-system, Segoe UI, Roboto, Arial, sans-serif" ],
    agent           |-> [ name |-> "HelperBot", avatar |-> "" ],
    enableVoice     |-> TRUE,
    languageOptions |-> <<"en", "hi", "es">>,
    context         |-> Undefined ]

\* window.AgentWidgetConfig ?? {}
HostConfig(w) == IF w.defined THEN w.value ELSE EmptyObj

\* useConfig, the useState initializer: { ...defaultConfig, ...host }
InitialConfig(w) == Spread(defaultConfig, HostConfig(w))

\* useConfig, the effect run once after mount: { ...prev, ...host }
RefreshedConfig(prev, w) == Spread(prev, HostConfig(w))

\* useState(config.enableVoice ? "voice" : "chat")
InitialMode(config) == IF config.enableVoice THEN "voice" ELSE "chat"

\* useState(config.languageOptions?.[0] ?? "en")
InitialLang(config) ==
  IF Len(config.languageOptions) >= 1 THEN config.languageOptions[1] ELSE "en"

\* The values the render uses (styles, containerPosition, the header, the
\* language select, the mode tabs, the request's context) follow.
\* Fault model for Styles: the theme's own values, without the defaults.
StylesOfThemeOnly(config) ==
  [ primary |-> OrDefault(config.theme, "primaryColor", Undefined),
    bg      |-> OrDefault(config.theme, "backgroundColor", Undefined),
    text    |-> OrDefault(config.theme, "textColor", Undefined),
    font    |-> OrDefault(config.theme, "fontFamily", Undefined) ]

\* styles: config.theme?.x ?? defaultConfig.theme.x
Styles(config) ==
  [ primary |-> OrDefault(config.theme, "primaryColor", defaultConfig.theme.primaryColor),
    bg      |-> OrDefault(config.theme, "backgroundColor", defaultConfig.theme.backgroundColor),
    text    |-> OrDefault(config.theme, "textColor", defaultConfig.theme.textColor),
    font    |-> OrDefault(config.theme, "fontFamily", defaultConfig.theme.fontFamily) ]

\* config.position ?? "bottom-right"
Position(config) == OrDefault(config, "position", "bottom-right")
\* config.agent?.name ?? "HelperBot"
AgentName(config) == OrDefault(config.agent, "name", "HelperBot")
\* config.languageOptions ?? defaultConfig.languageOptions
LanguageList(config) == OrDefault(config, "languageOptions", defaultConfig.languageOptions)
VoiceEnabled(config) == config.enableVoice
Context(config) == config.context


(***************************************************************************)
(* Host configurations the model draws from.  An option is << >> for a key *)
(* the host omits and <<v>> for a key it supplies.                         *)
(***************************************************************************)
MkObj(opt) == [k \in {x \in DOMAIN opt : Len(opt[x]) = 1} |-> opt[k][1]]

Omitted == << >>

ThemeObjects ==
  { MkObj([primaryColor |-> p, backgroundColor |-> b, textColor |-> t, fontFamily |-> f]) :
      p \in {Omitted, <<"#ff0000">>}, b \in {Omitted, <<"#000000">>},
      t \in {Omitted, <<"#eeeeee">>}, f \in {Omitted, <<"serif">>} }

AgentObjects ==
  { MkObj([name |-> n, avatar |-> a]) :
      n \in {Omitted, <<"Ada">>}, a \in {Omitted, <<"ada.png">>} }

HostObjects ==
  { MkObj([position |-> p, theme |-> th, agent |-> ag, enableVoice |-> ev,
           languageOptions |-> lo, context |-> cx]) :
      p  \in {Omitted, <<"top-left">>},
      th \in {Omitted} \cup {<<t>> : t \in ThemeObjects},
      ag \in {Omitted} \cup {<<a>> : a \in AgentObjects},
      ev \in {Omitted, <<TRUE>>, <<FALSE>>},
      lo \in {Omitted, <<(<<"hi", "en">>)>>},
      cx \in {Omitted, <<"shop">>} }

\* window.AgentWidgetConfig: not set, or set to an object.
NoWindowConfig == [defined |-> FALSE, value |-> EmptyObj]
WindowOf(o) == [defined |-> TRUE, value |-> o]

\* Every host configuration (the configuration specification).
AllWindows == {NoWindowConfig} \cup {WindowOf(o) : o \in HostObjects}

\* What a host sets just in time, between the first render and the effects.
LateWindows ==
  { NoWindowConfig,
    WindowOf(MkObj([enableVoice |-> <<FALSE>>])),
    WindowOf(MkObj([enableVoice |-> <<TRUE>>, context |-> <<"shop">>])),
    WindowOf(MkObj([theme |-> <<MkObj([textColor |-> <<"#eeeeee">>])>>,
                    agent |-> <<EmptyObj>>])) }

\* The host configurations of the widget specification.
WidgetWindows ==
  { WindowOf(MkObj([languageOptions |-> <<(<<"en", "hi">>)>>])),
    WindowOf(MkObj([enableVoice |-> <<FALSE>>, languageOptions |-> <<(<<"hi", "en">>)>>])) }

\* What the host sets just in time in the widget specification.
WidgetLateWindows ==
  { WindowOf(MkObj([enableVoice |-> <<FALSE>>, languageOptions |-> <<(<<"hi", "en">>)>>])) }

\* The browsers: with speech recognition and speech synthesis, and with
\* neither.
Browsers ==
  { [recognition |-> TRUE,  synthesis |-> TRUE],
    [recognition |-> FALSE, synthesis |-> FALSE] }

(***************************************************************************)
(* The state.                                                              *)
(***************************************************************************)
VARIABLES
  windowCfg,   \* window.AgentWidgetConfig
  readCfgs,    \* the host configurations useConfig has read, in order
  hasSR,       \* the browser has (webkit)SpeechRecognition
  hasSynth,    \* the browser has SpeechSynthesisUtterance / speechSynthesis
  phase,       \* "rendered": first render done; "mounted": effects have run
  cfg,         \* useConfig's state
  open, mode, lang, input, messages, loading, listening,   \* useState
  rec,         \* recognitionRef.current
  orphans,     \* the languages of the running sessions of recognition objects
               \* the ref no longer holds
  view,        \* the hook state as of the last render (what closures read)
  requests,    \* sendMessage calls suspended at an await
  spoken,      \* utterances handed to window.speechSynthesis.speak
  nextId,      \* crypto.randomUUID: the next fresh id
  relay,       \* the relay endpoint: the request being handled
  page         \* the host page: window.AgentWidget and the instances mounted

widgetVars ==
  << windowCfg, readCfgs, hasSR, hasSynth, phase, cfg, open, mode, lang, input,
     messages, loading, listening, rec, orphans, view, requests, spoken, nextId >>

vars == << widgetVars, relay, page >>

\* The values a render captures for the closures it creates.
ViewOf(o, i, m, l) == [open |-> o, input |-> i, messages |-> m, listening |-> l]

\* The number of hook-state values, other than open, that the last render has
\* not seen.
Staleness ==
  LET now == ViewOf(open, input, messages, listening)
  IN  Cardinality({f \in {"input", "messages", "listening"} : view[f] # now[f]})

NoRec ==
  [exists |-> FALSE, lang |-> "", active |-> FALSE,
   continuous |-> FALSE, interimResults |-> FALSE]

\* Fault model for RecognitionEffect: the language is assigned to the object
\* the ref holds, running or not.
RecognitionEffectHotSwap(cur, sr, voice, l) ==
  IF ~sr \/ ~voice THEN cur ELSE [cur EXCEPT !.exists = TRUE, !.lang = l]

\* The speech-recognition effect, run after a render in which lang or
\* config.enableVoice changed: a new recognition object, unless the browser
\* has no recognition or voice is disabled (then the ref keeps what it held).
RecognitionEffect(cur, sr, voice, l) ==
  IF ~sr \/ ~voice THEN cur
  ELSE \* rec.lang = lang; rec.continuous = false; rec.interimResults = true
       [exists |-> TRUE, lang |-> l, active |-> FALSE,
        continuous |-> FALSE, interimResults |-> TRUE]

WidgetInit(windows, browsers) ==
  /\ windowCfg \in windows
  /\ readCfgs = <<HostConfig(windowCfg)>>
  /\ \E b \in browsers : hasSR = b.recognition /\ hasSynth = b.synthesis
  /\ phase = "rendered"
  /\ cfg = InitialConfig(windowCfg)
  /\ open = FALSE
  /\ mode = InitialMode(cfg)
  /\ lang = InitialLang(cfg)
  /\ input = EmptyText
  /\ messages = << >>
  /\ loading = FALSE
  /\ listening = FALSE
  /\ rec = NoRec
  /\ orphans = << >>
  /\ view = ViewOf(open, input, messages, listening)
  /\ requests = {}
  /\ spoken = << >>
  /\ nextId = 1

\* The relay when it handles no request.
NoRequest ==
  [ variant |-> "", method |-> "", origin |-> "", env |-> "", parser |-> "",
    body |-> [kind |-> "none", data |-> EmptyObj] ]
NoResponse == [status |-> 0, body |-> EmptyObj, headers |-> EmptyObj]
RelayIdle ==
  [pc |-> "idle", req |-> NoRequest, prompt |-> << >>, res |-> NoResponse, calls |-> 0]

\* An api object is named by the number of the mount that created it; NoApi
\* is window.AgentWidget when it is not defined, and the api of an instance
\* that is not mounted.
NoApi == 0
Instances == {"first", "second", "third"}
NoPage ==
  [ AgentWidget |-> NoApi,
    api    |-> [i \in Instances |-> NoApi],
    open   |-> [i \in Instances |-> FALSE],
    mounts |-> 0 ]

Init == WidgetInit(WidgetWindows, Browsers) /\ relay = RelayIdle /\ page = NoPage

(***************************************************************************)
(* Mount.                                                                  *)
(***************************************************************************)
\* The host page assigns window.AgentWidgetConfig after the first render and
\* before the effects run.
HostSetsConfig(windows) ==
  /\ phase = "rendered"
  /\ \E w \in windows : w # windowCfg /\ windowCfg' = w
  /\ UNCHANGED << readCfgs, hasSR, hasSynth, phase, cfg, open, mode, lang, input,
                  messages, loading, listening, rec, orphans, view, requests,
                  spoken, nextId, relay, page >>

\* The effects of the first commit, in order: useConfig's refresh, the
\* installation of window.AgentWidget, the speech-recognition effect; then the
\* render the refresh asks for, and the speech-recognition effect again if
\* config.enableVoice changed.
MountEffects ==
  /\ phase = "rendered"
  /\ phase' = "mounted"
  /\ cfg' = RefreshedConfig(cfg, windowCfg)
  /\ readCfgs' = Append(readCfgs, HostConfig(windowCfg))
  /\ LET first == RecognitionEffect(rec, hasSR, VoiceEnabled(cfg), lang)
     IN  rec' = IF VoiceEnabled(cfg') # VoiceEnabled(cfg)
               THEN RecognitionEffect(first, hasSR, VoiceEnabled(cfg'), lang)
               ELSE first
  /\ UNCHANGED << windowCfg, hasSR, hasSynth, open, mode, lang, input, messages,
                  loading, listening, orphans, view, requests, spoken, nextId, relay, page >>

(***************************************************************************)
(* Messages and the relay request.                                         *)
(***************************************************************************)
FallbackText == <<"Sorry, something went wrong.">>

\* What the relay can answer to one request: a JSON body with a reply, a JSON
\* body without one ({error: ...}), a rejected fetch, a body res.json() cannot
\* parse.
ReplyTexts == { <<"ok">> }
Outcomes ==
  { [kind |-> "reply", reply |-> t] : t \in ReplyTexts } \cup
  { [kind |-> k, reply |-> EmptyText] : k \in {"noReply", "fetchThrows", "jsonThrows"} }

Message(id, role, text, l) == [id |-> id, role |-> role, text |-> text, lang |-> l]

\* Fault model for IsBlank: if (!text) return;
IsBlankWithoutTrim(text) == ~Truthy(text)

\* if (!text.trim()) return;
IsBlank(text) == ~Truthy(Trim(text))

\* Fault model for AppendMessage: [m, ...prev].
AppendMessageInFront(prev, m) == <<m>> \o prev

\* setMessages((prev) => [...prev, m])
AppendMessage(prev, m) == Append(prev, m)

\* [...messages, userMsg].map((m) => ({ role: m.role, content: m.text })),
\* where messages is the value the closure captured.
RequestMessages(captured, userMsg) ==
  LET all == Append(captured, userMsg)
  IN  [i \in 1..Len(all) |-> [role |-> all[i].role, content |-> all[i].text]]

\* The try block ends by an exception at the fetch or at res.json().
Throws(o) == o.kind \in {"fetchThrows", "jsonThrows"}

\* data.reply ?? ""
AssistantText(o) == IF o.kind = "reply" THEN o.reply ELSE EmptyText

\* mode === "voice" && config.enableVoice && data.reply, with the mode and the
\* config of the render whose sendMessage was called.
ShouldSpeak(r, o) == r.mode = "voice" /\ r.voice /\ o.kind = "reply" /\ Truthy(o.reply)

\* Fault model for LoadingAfterSettle: setLoading(false) at the end of the try
\* block, not in a finally block.
LoadingKeptOnFailure(o) == Throws(o)

\* finally { setLoading(false) }
LoadingAfterSettle(o) == FALSE

\* Fault model for LoadingOnSend: no setLoading(true).
LoadingLeftOnSend == loading

\* setLoading(true)
LoadingOnSend == TRUE

UserCount(msgs) == Cardinality({i \in 1..Len(msgs) : msgs[i].role = "user"})
AssistantCount(msgs) == Cardinality({i \in 1..Len(msgs) : msgs[i].role = "assistant"})

(***************************************************************************)
(* sendMessage(text), up to the first await.  The ids are fresh            *)
(* (crypto.randomUUID).                                                    *)
(***************************************************************************)
sendMessage(text) ==
  IF IsBlank(text)
  THEN UNCHANGED vars
  ELSE LET userMsg == Message(nextId, "user", text, lang)
       IN  /\ UserCount(messages) < MaxTurns
           /\ messages' = AppendMessage(messages, userMsg)
           /\ input' = EmptyText
           /\ loading' = LoadingOnSend
           /\ requests' = requests \cup
                { [ id    |-> nextId,
                    body  |-> [ messages |-> RequestMessages(view.messages, userMsg),
                                context  |-> Context(cfg),
                                lang     |-> lang ],
                    mode  |-> mode,
                    voice |-> VoiceEnabled(cfg),
                    lang  |-> lang ] }
           /\ nextId' = nextId + 1
           /\ view' = ViewOf(open, input', messages', listening)
           /\ UNCHANGED << windowCfg, readCfgs, hasSR, hasSynth, phase, cfg, open,
                           mode, lang, listening, rec, orphans, spoken, relay, page >>

\* Chat mode: the send button, or Enter without shift, calls sendMessage(input).
SubmitChat ==
  /\ phase = "mounted" /\ view.open /\ mode = "chat"
  /\ sendMessage(view.input)

\* Voice mode: the send button, disabled while input.trim() is empty, calls
\* input && sendMessage(input).  A click on the disabled button does nothing.
SubmitVoice ==
  /\ phase = "mounted" /\ view.open /\ mode = "voice"
  /\ IF IsBlank(view.input) \/ ~Truthy(view.input)
     THEN UNCHANGED vars
     ELSE sendMessage(view.input)

(***************************************************************************)
(* sendMessage after its awaits: the request r settles with outcome o.     *)
(***************************************************************************)
Complete(r, o) ==
  LET speaks      == ~Throws(o) /\ ShouldSpeak(r, o)
      speakThrows == speaks /\ ~hasSynth
      assistant   == Message(nextId, "assistant", AssistantText(o), r.lang)
  IN  /\ messages' =
           IF Throws(o)
           THEN AppendMessage(messages, Message(nextId, "assistant", FallbackText, r.lang))
           ELSE IF speakThrows
           THEN AppendMessage(AppendMessage(messages, assistant),
                              Message(nextId + 1, "assistant", FallbackText, r.lang))
           ELSE AppendMessage(messages, assistant)
      /\ nextId' = IF speakThrows THEN nextId + 2 ELSE nextId + 1
      /\ spoken' = IF speaks /\ hasSynth
                   THEN Append(spoken, [text |-> o.reply, lang |-> r.lang])
                   ELSE spoken
      /\ loading' = LoadingAfterSettle(o)
      /\ requests' = requests \ {r}
      /\ UNCHANGED << windowCfg, readCfgs, hasSR, hasSynth, phase, cfg, open, mode,
                      lang, input, listening, rec, orphans, view, relay, page >>
      /\ Staleness' <= MaxStale

\* Fault model for Settle: the requests complete in the order of their issue.
SettleInOrder ==
  \E r \in requests :
    /\ \A q \in requests : r.id <= q.id
    /\ \E o \in Outcomes : Complete(r, o)

\* Any request in flight can be the next to complete.
Settle == \E r \in requests : \E o \in Outcomes : Complete(r, o)

\* The render scheduled by updates made outside a DOM event handler.
Render ==
  /\ view # ViewOf(open, input, messages, listening)
  /\ view' = ViewOf(open, input, messages, listening)
  /\ UNCHANGED << windowCfg, readCfgs, hasSR, hasSynth, phase, cfg, open, mode, lang,
                  input, messages, loading, listening, rec, orphans, requests,
                  spoken, nextId, relay, page >>

(***************************************************************************)
(* The controls of the widget.  A control exists in the last render only;  *)
(* a DOM event handler's updates are rendered before the next event.       *)
(***************************************************************************)
\* setOpen(true), setOpen(false), setOpen((prev) => !prev)
OpenUpdater(prev) == TRUE
CloseUpdater(prev) == FALSE
\* Fault model for ToggleUpdater: toggle opens.
ToggleOpens(prev) == TRUE
ToggleUpdater(prev) == ~prev

\* The launcher button, rendered while closed: setOpen(true).
ClickLauncher ==
  /\ phase = "mounted" /\ ~view.open
  /\ open' = OpenUpdater(open)
  /\ view' = ViewOf(open', input, messages, listening)
  /\ UNCHANGED << windowCfg, readCfgs, hasSR, hasSynth, phase, cfg, mode, lang, input,
                  messages, loading, listening, rec, orphans, requests, spoken,
                  nextId, relay, page >>

\* The close button of the panel: setOpen(false).
ClickClose ==
  /\ phase = "mounted" /\ view.open
  /\ open' = CloseUpdater(open)
  /\ view' = ViewOf(open', input, messages, listening)
  /\ UNCHANGED << windowCfg, readCfgs, hasSR, hasSynth, phase, cfg, mode, lang, input,
                  messages, loading, listening, rec, orphans, requests, spoken,
                  nextId, relay, page >>

\* The mode tabs, rendered only when config.enableVoice: setMode(m).
ModeTabsShown(config) == VoiceEnabled(config)

ClickModeTab(m) ==
  /\ phase = "mounted" /\ view.open /\ ModeTabsShown(cfg)
  /\ m # mode
  /\ mode' = m
  /\ view' = ViewOf(open, input, messages, listening)
  /\ UNCHANGED << windowCfg, readCfgs, hasSR, hasSynth, phase, cfg, open, lang, input,
                  messages, loading, listening, rec, orphans, requests, spoken,
                  nextId, relay, page >>

SeqRange(q) == {q[i] : i \in 1..Len(q)}

\* The language select: setLang(l); the render runs the speech-recognition
\* effect again (lang is one of its dependencies), which does not stop the
\* object it replaces.
SelectLang(l) ==
  /\ phase = "mounted" /\ view.open
  /\ l \in SeqRange(LanguageList(cfg)) /\ l # lang
  /\ lang' = l
  /\ rec' = RecognitionEffect(rec, hasSR, VoiceEnabled(cfg), l)
  /\ LET replaced == hasSR /\ VoiceEnabled(cfg)
     IN  /\ (replaced /\ rec.active) => Len(orphans) < MaxOrphans
         /\ orphans' = IF replaced /\ rec.active THEN Append(orphans, rec.lang)
                       ELSE orphans
  /\ view' = ViewOf(open, input, messages, listening)
  /\ UNCHANGED << windowCfg, readCfgs, hasSR, hasSynth, phase, cfg, open, mode, input,
                  messages, loading, listening, requests, spoken, nextId, relay, page >>

\* The text input of chat mode: setInput(e.target.value).
TypeInput(t) ==
  /\ phase = "mounted" /\ view.open /\ mode = "chat"
  /\ t # view.input
  /\ input' = t
  /\ view' = ViewOf(open, input', messages, listening)
  /\ UNCHANGED << windowCfg, readCfgs, hasSR, hasSynth, phase, cfg, open, mode, lang,
                  messages, loading, listening, rec, orphans, requests, spoken,
                  nextId, relay, page >>

\* start() throws when the object's session is already running.
StartThrows(r) == r.active

\* Fault model for ListeningAfterStart: setListening(true) whether or not
\* start() threw.
ListeningStuckAfterThrow(threw) == TRUE

\* try { start(); setListening(true) } catch { setListening(false) }
ListeningAfterStart(threw) == ~threw

\* The mic button of voice mode.
ClickMic ==
  /\ phase = "mounted" /\ view.open /\ mode = "voice"
  /\ IF ~rec.exists
     THEN UNCHANGED vars
     ELSE /\ IF ~view.listening
             THEN \* rec.lang is the language of the object's session while one
                  \* is running: the assignment of lang does not reach it.
                  /\ rec' = IF StartThrows(rec) THEN rec
                            ELSE [rec EXCEPT !.lang = lang, !.active = TRUE]
                  /\ listening' = ListeningAfterStart(StartThrows(rec))
             ELSE /\ rec' = [rec EXCEPT !.active = FALSE]
                  /\ listening' = FALSE
          /\ view' = ViewOf(open, input, messages, listening')
          /\ UNCHANGED << windowCfg, readCfgs, hasSR, hasSynth, phase, cfg, open, mode,
                          lang, input, messages, loading, orphans, requests, spoken,
                          nextId, relay, page >>

(***************************************************************************)
(* The speech engine's callbacks.                                          *)
(***************************************************************************)
RECURSIVE JoinSpace(_)
\* list.join(" ")
JoinSpace(list) ==
  IF list = << >> THEN EmptyText
  ELSE IF Len(list) = 1 THEN list[1]
  ELSE list[1] \o <<Space>> \o JoinSpace(Tail(list))

\* rec.onresult: the results' first alternatives, joined by a space, trimmed.
Transcript(results) == Trim(JoinSpace(results))

ResultLists == { <<(<<"a">>)>>, <<(<<"a">>), EmptyText>>, <<EmptyText, EmptyText>> }

\* rec.onresult of a running session: setInput(transcript).
RecResult(results) ==
  /\ rec.active \/ orphans # << >>
  /\ input' = Transcript(results)
  /\ UNCHANGED << windowCfg, readCfgs, hasSR, hasSynth, phase, cfg, open, mode, lang,
                  messages, loading, listening, rec, orphans, view, requests,
                  spoken, nextId, relay, page >>
  /\ Staleness' <= MaxStale

Without(q, i) == SubSeq(q, 1, i - 1) \o SubSeq(q, i + 1, Len(q))

\* Fault model for ListeningOnEnd: onend leaves the listening flag.
ListeningKeptOnEnd(prev) == prev

\* rec.onend = () => setListening(false)
ListeningOnEnd(prev) == FALSE

\* rec.onend: the engine ends a running session; setListening(false).
RecEnd ==
  /\ \/ rec.active /\ rec' = [rec EXCEPT !.active = FALSE] /\ orphans' = orphans
     \/ \E i \in 1..Len(orphans) : orphans' = Without(orphans, i) /\ rec' = rec
  /\ listening' = ListeningOnEnd(listening)
  /\ UNCHANGED << windowCfg, readCfgs, hasSR, hasSynth, phase, cfg, open, mode, lang,
                  input, messages, loading, view, requests, spoken, nextId, relay, page >>
  /\ Staleness' <= MaxStale

(***************************************************************************)
(* window.AgentWidget, installed by the mount effect.                      *)
(***************************************************************************)
HostCall(next) ==
  /\ phase = "mounted"
  /\ open' = next
  /\ UNCHANGED << windowCfg, readCfgs, hasSR, hasSynth, phase, cfg, mode, lang, input,
                  messages, loading, listening, rec, orphans, view, requests,
                  spoken, nextId, relay, page >>

\* open: () => setOpen(true)
HostOpen == HostCall(OpenUpdater(open))
\* Fault model for HostClose: closing drops the conversation and the requests
\* in flight.
HostCloseForgets ==
  /\ phase = "mounted"
  /\ open' = FALSE /\ messages' = << >> /\ requests' = {} /\ loading' = FALSE
  /\ UNCHANGED << windowCfg, readCfgs, hasSR, hasSynth, phase, cfg, mode, lang, input,
                  listening, rec, orphans, view, spoken, nextId, relay, page >>

\* close: () => setOpen(false)
HostClose == HostCall(CloseUpdater(open))
\* toggle: () => setOpen((prev) => !prev)
HostToggle == HostCall(ToggleUpdater(open))

(***************************************************************************)
(* The widget specification.                                               *)
(***************************************************************************)
SetConfigLate == HostSetsConfig(WidgetLateWindows)
ChooseMode == \E m \in {"chat", "voice"} : ClickModeTab(m)
ChooseLang == \E l \in SeqRange(LanguageList(cfg)) : SelectLang(l)
Type == \E t \in TypedTexts : TypeInput(t)
Hear == \E results \in ResultLists : RecResult(results)

Next ==
  \/ SetConfigLate
  \/ MountEffects
  \/ ClickLauncher
  \/ ClickClose
  \/ ChooseMode
  \/ ChooseLang
  \/ Type
  \/ SubmitChat
  \/ SubmitVoice
  \/ Settle
  \/ Render
  \/ ClickMic
  \/ Hear
  \/ RecEnd
  \/ HostOpen
  \/ HostClose
  \/ HostToggle

Spec == Init /\ [][Next]_vars

(***************************************************************************)
(* Properties of the widget.                                               *)
(***************************************************************************)
IsPrefix(p, q) == Len(p) <= Len(q) /\ SubSeq(q, 1, Len(p)) = p
WhitespaceOnly(t) == \A i \in 1..Len(t) : t[i] = Space

\* A step that accepts a submission: it issues a relay request.
Accepts == requests' \ requests # {}
\* A step in which a relay request completes.
Settles == requests \ requests' # {}

\* The one entry a step appended is the user message of the submission the step
\* accepted: the text of the input, not blank, in the language selected.
AddedBySubmission ==
  /\ Accepts
  /\ Len(messages') = Len(messages) + 1
  /\ LET m == messages'[Len(messages')]
     IN  /\ m.role = "user" /\ m.text = view.input /\ ~WhitespaceOnly(m.text)
         /\ m.lang = lang
         /\ \E r \in requests' \ requests : r.id = m.id

\* The entries a step appended are assistant messages of the request the step
\* completed: a reply received, or the fallback text.
AddedByReply ==
  /\ Settles
  /\ \A i \in Len(messages) + 1 .. Len(messages') :
       /\ messages'[i].role = "assistant"
       /\ messages'[i].text \in ReplyTexts \cup {EmptyText, FallbackText}

\* C1: the message list only grows by appending at its end: every step leaves
\* the earlier list (the hook state, and the list last rendered) a prefix of
\* the new one, and what a step appends is the user message of the submission
\* it accepted or the reply or fallback of the request it completed.
C1_AppendOnly ==
  [][ /\ IsPrefix(messages, messages')
      /\ IsPrefix(view.messages, view'.messages)
      /\ IsPrefix(view'.messages, messages')
      /\ messages' # messages => AddedBySubmission \/ AddedByReply ]_vars

\* C1 witness: two user messages in a row, then a fallback reply, after open,
\* close and mode changes.
C1_Witness ==
  /\ Len(messages) >= 3
  /\ messages[1].role = "user" /\ messages[2].role = "user"
  /\ messages[3].role = "assistant" /\ messages[3].text = FallbackText
  /\ ~open /\ mode = "voice"

\* C2 (as claimed): the messages of the request a submission issues are the
\* whole list as it stands at acceptance followed by the new user message.
C2_RequestCarriesWholeList ==
  [][ \A r \in requests' \ requests :
        r.body.messages =
          [i \in 1..Len(messages') |->
             [role |-> messages'[i].role, content |-> messages'[i].text]] ]_vars

\* C3 (as claimed): every submission whose request has completed has exactly
\* one assistant message: the assistant messages are as many as the user
\* messages whose request is no longer outstanding.
C3_OneReplyPerTurn ==
  AssistantCount(messages) + Cardinality(requests) = UserCount(messages)

\* C4: a submission of an empty or whitespace-only text, in chat mode or in
\* voice mode, changes no variable.
C4_BlankSubmissionIgnored ==
  [][ ((SubmitChat \/ SubmitVoice) /\ WhitespaceOnly(view.input))
        => UNCHANGED vars ]_vars

\* C4 witness: a whitespace-only input in voice mode, in the open widget, with a
\* request outstanding.
C4_Witness ==
  /\ phase = "mounted" /\ view.open /\ mode = "voice"
  /\ view.input = <<Space>> /\ requests # {} /\ loading

\* C5: the loading flag is set by the step that accepts a submission and cleared
\* by the step in which a request completes, by success or by failure, and it
\* is false whenever no request is outstanding.
C5_LoadingFollowsRequests ==
  /\ [](requests = {} => ~loading)
  /\ [][ (Accepts => loading') /\ (Settles => ~loading') ]_vars

\* C5 witness: a request has failed, none is outstanding, the flag is clear.
C5_Witness ==
  /\ requests = {} /\ ~loading
  /\ Len(messages) = 2 /\ messages[2].text = FallbackText

\* C6 (as claimed): no submission is accepted while the loading flag is set.
C6_NoSubmissionWhileLoading == [][ Accepts => ~loading ]_vars

\* C6 (amended): a submission is accepted with the loading flag set only while
\* an earlier request is still outstanding, and the flag is set afterwards.
C6_LoadingOnlyWhileOutstanding ==
  [][ Accepts => ((loading => requests # {}) /\ loading') ]_vars

\* C6 witness: two requests outstanding at once.
C6_Witness == Cardinality(requests) = 2 /\ loading

\* C7: the widget starts closed; once mounted, open, close and toggle of the
\* control object are enabled in every state; open leaves the widget open,
\* close leaves it closed, toggle flips it (so a call can always be made with
\* that effect, and no call has another effect).
C7_HostControls ==
  /\ ~open
  /\ [](phase = "mounted" =>
          /\ ENABLED (HostOpen /\ open')
          /\ ENABLED (HostClose /\ ~open')
          /\ ENABLED (HostToggle /\ open' = ~open))
  /\ [][ /\ HostOpen => open'
         /\ HostClose => ~open'
         /\ HostToggle => (open' = ~open) ]_vars

\* C7 witness: the host has opened the widget (no render has shown it yet)
\* while a request is outstanding.
C7_Witness == open /\ ~view.open /\ requests # {}

\* C8 (as claimed): while the configuration in effect has enableVoice = false,
\* the mode is chat.
C8_VoiceOnlyWhenEnabled == ~VoiceEnabled(cfg) => mode = "chat"

(***************************************************************************)
(* The configuration specification: every host configuration, read at      *)
(* construction and again by the refresh after mount.                      *)
(***************************************************************************)
SetConfigJustInTime == HostSetsConfig(LateWindows)

InitConfig ==
  /\ WidgetInit(AllWindows, {[recognition |-> TRUE, synthesis |-> TRUE]})
  /\ relay = RelayIdle
  /\ page = NoPage

NextConfig ==
  \/ SetConfigJustInTime
  \/ MountEffects

SpecConfig == InitConfig /\ [][NextConfig]_vars

\* No configuration object the widget read holds the key k.
NeverSupplied(k) == \A i \in 1..Len(readCfgs) : k \notin DOMAIN readCfgs[i]
\* No configuration object the widget read holds the key sub under the key k.
NeverSuppliedIn(k, sub) ==
  \A i \in 1..Len(readCfgs) :
    k \in DOMAIN readCfgs[i] => sub \notin DOMAIN readCfgs[i][k]

RelayMessages ==
  { << >>,
    << [role |-> "user", content |-> "Hi"] >>,
    << [role |-> "user", content |-> "Hi"],
       [role |-> "assistant", content |-> "Hello"],
       [role |-> "system", content |-> "Be brief"] >> }

RelayPayloads ==
  { MkObj([messages |-> m, context |-> c, lang |-> l]) :
      m \in {Omitted} \cup {<<x>> : x \in RelayMessages},
      c \in {Omitted, <<"">>, <<"You are a front-end expert">>},
      l \in {Omitted, <<"hi">>} }

RelayBodies ==
  { [kind |-> k, data |-> d] : k \in {"object", "string"}, d \in RelayPayloads } \cup
  { [kind |-> k, data |-> EmptyObj] : k \in {"malformed", "none"} }

\* What reaches each variant.  The Express server reads the body itself, as
\* JSON (bodyParser.json()): the JSON text of an object, a text that is not
\* JSON, or no body.  Netlify hands its handler a string or nothing.
BodiesOf(variant) ==
  CASE variant = "express" -> {b \in RelayBodies : b.kind # "string"}
    [] variant = "vercel"  -> RelayBodies
    [] variant = "netlify" -> {b \in RelayBodies : b.kind # "object"}

\* What the deployment of the Express server fixes and the source does not:
\* NODE_ENV, and the major version of body-parser.
ExpressEnvs == {"production", "development"}
ExpressParsers == {"1.x", "2.x"}
NotExpress == "n/a"

RelayRequests ==
  { [variant |-> v, method |-> m, origin |-> o, body |-> b, env |-> e, parser |-> p] :
      v \in {"express", "vercel", "netlify"},
      m \in {"POST", "GET", "OPTIONS"},
      o \in {Undefined, "https://shop.example"},
      b \in RelayBodies,
      e \in ExpressEnvs \cup {NotExpress},
      p \in ExpressParsers \cup {NotExpress} }

\* The requests a variant can receive.
Receivable(req) ==
  /\ req.body \in BodiesOf(req.variant)
  /\ IF req.variant = "express"
     THEN req.env \in ExpressEnvs /\ req.parser \in ExpressParsers
     ELSE req.env = NotExpress /\ req.parser = NotExpress

\* What generateText resolves with.
ModelTexts == { "Namaste" }

\* corsHeaders(origin) of the Netlify function.
corsHeaders(origin) ==
  [ h \in {"Access-Control-Allow-Origin", "Access-Control-Allow-Methods",
           "Access-Control-Allow-Headers"} |->
      CASE h = "Access-Control-Allow-Origin"  -> IF origin = Undefined THEN "*" ELSE origin
        [] h = "Access-Control-Allow-Methods" -> "POST, OPTIONS"
        [] h = "Access-Control-Allow-Headers" -> "Content-Type" ]

\* app.use(cors()) of the Express server: the default options.
ExpressCors == [ h \in {"Access-Control-Allow-Origin"} |-> "*" ]
ExpressPreflight ==
  [ h \in {"Access-Control-Allow-Origin", "Access-Control-Allow-Methods"} |->
      CASE h = "Access-Control-Allow-Origin"  -> "*"
        [] h = "Access-Control-Allow-Methods" -> "GET,HEAD,PUT,PATCH,POST,DELETE" ]

\* The headers of a response a handler writes.
HeadersOf(req) ==
  CASE req.variant = "express" -> ExpressCors
    [] req.variant = "vercel"  -> EmptyObj
    [] req.variant = "netlify" -> corsHeaders(req.origin)

\* Fault model for ToUpperCase: the role as it was sent.
RoleAsSent(role) == role

\* m.role.toUpperCase()
ToUpperCase(role) ==
  CASE role = "user" -> "USER"
    [] role = "assistant" -> "ASSISTANT"
    [] role = "system" -> "SYSTEM"

\* (messages ?? []).map((m) => `${m.role.toUpperCase()}: ${m.content}`)
ConversationLines(data) ==
  LET msgs == OrDefault(data, "messages", << >>)
  IN  [i \in 1..Len(msgs) |-> ToUpperCase(msgs[i].role) \o ": " \o msgs[i].content]

\* Fault model for SystemLines: no filter(Boolean), so that a value that is
\* absent gives an empty line.
SystemLinesUnfiltered(data) ==
  LET context == OrDefault(data, "context", "")
      l       == OrDefault(data, "lang", "")
  IN  << "You are an embedded website assistant widget.",
         IF context # "" THEN "Context from host site: " \o context ELSE "",
         IF l # "" THEN "Respond in language code: " \o l ELSE "" >>

\* [role statement, context line, lang line].filter(Boolean): a value that is
\* absent, or the empty string, gives no line.
SystemLines(data) ==
  LET context == OrDefault(data, "context", "")
      l       == OrDefault(data, "lang", "")
  IN  << "You are an embedded website assistant widget." >>
      \o (IF context # "" THEN << "Context from host site: " \o context >> ELSE << >>)
      \o (IF l # "" THEN << "Respond in language code: " \o l >> ELSE << >>)

\* array.join("\n"), as the lines of the joined string: no element gives the
\* empty string, which is one empty line.
JoinedLines(lines) == IF lines = << >> THEN << "" >> ELSE lines

\* `${systemInstruction}\n\nConversation so far:\n${conversation}\n\nASSISTANT:`
\* as the lines of the prompt.
PromptLines(data) ==
  JoinedLines(SystemLines(data)) \o << "", "Conversation so far:" >>
    \o JoinedLines(ConversationLines(data)) \o << "", "ASSISTANT:" >>

Responded(req, status, body, headers, prompt, calls) ==
  [ pc |-> "done", req |-> req, prompt |-> prompt,
    res |-> [status |-> status, body |-> body, headers |-> headers],
    calls |-> calls ]

\* The handler awaits generateText({ model, prompt }).
Calling(req, data) ==
  [ pc |-> "calling", req |-> req, prompt |-> PromptLines(data),
    res |-> NoResponse, calls |-> 1 ]

Failed(req) ==
  Responded(req, 500, [error |-> "Failed to generate response"], HeadersOf(req), << >>, 0)

\* if (method !== "POST") of the Vercel and Netlify handlers.
MethodRejected(req) == req.method # "POST"

\* The Vercel handler, up to its await.
VercelHandler(req) ==
  IF MethodRejected(req)
  THEN Responded(req, 405, [error |-> "Method not allowed"], HeadersOf(req), << >>, 0)
  ELSE \* typeof req.body === "string" ? JSON.parse(req.body) : req.body, then
       \* destructured: a string that is not JSON and an absent body throw.
       IF req.body.kind \in {"malformed", "none"}
       THEN Failed(req)
       ELSE Calling(req, req.body.data)

\* The Netlify handler, up to its await.
NetlifyHandler(req) ==
  IF MethodRejected(req)
  THEN Responded(req, 405, [error |-> "Method not allowed"], HeadersOf(req), << >>, 0)
  ELSE \* typeof event.body === "string" ? JSON.parse(event.body) : event.body,
       \* then (body ?? {}): only a string that is not JSON throws.
       IF req.body.kind = "malformed"
       THEN Failed(req)
       ELSE Calling(req, IF req.body.kind = "none" THEN EmptyObj ELSE req.body.data)

\* The Express server: cors() answers OPTIONS itself, app.post("/api/chat")
\* routes POST to the handler, and no route matches another method.
ExpressServer(req) ==
  IF req.method = "OPTIONS"
  THEN Responded(req, 204, EmptyObj, ExpressPreflight, << >>, 0)
  ELSE IF req.method # "POST"
  THEN Responded(req, 404, [text |-> "Cannot " \o req.method \o " /api/chat"],
                 ExpressCors, << >>, 0)
  ELSE \* bodyParser.json() fails on a text that is not JSON, before the route:
       \* Express's default error handler answers 400, with the error's stack
       \* unless NODE_ENV is production.
       IF req.body.kind = "malformed"
       THEN Responded(req, 400,
                      [text |-> IF req.env = "production" THEN "Bad Request"
                                ELSE "SyntaxError: Unexpected token in JSON"],
                      ExpressCors, << >>, 0)
       \* Without a body, body-parser 1.x leaves req.body = {} and body-parser
       \* 2.x leaves it undefined, which the destructuring throws on.
       ELSE IF req.body.kind = "none" /\ req.parser = "2.x"
       THEN Failed(req)
       ELSE Calling(req, req.body.data)

Handle(req) ==
  CASE req.variant = "express" -> ExpressServer(req)
    [] req.variant = "vercel"  -> VercelHandler(req)
    [] req.variant = "netlify" -> NetlifyHandler(req)

\* A request arrives and is handled up to the handler's await or response.
RelayReceive ==
  /\ relay.pc = "idle"
  /\ \E req \in RelayRequests :
       /\ Receivable(req)
       /\ relay' = Handle(req)
  /\ UNCHANGED << widgetVars, page >>

\* generateText resolves: the handler answers 200 {reply: text}.
RelayModelReturns ==
  /\ relay.pc = "calling"
  /\ \E text \in ModelTexts :
       relay' = Responded(relay.req, 200, [reply |-> text], HeadersOf(relay.req),
                          relay.prompt, relay.calls)
  /\ UNCHANGED << widgetVars, page >>

\* generateText rejects: the catch block answers 500.
RelayModelThrows ==
  /\ relay.pc = "calling"
  /\ relay' = [Failed(relay.req) EXCEPT !.prompt = relay.prompt, !.calls = relay.calls]
  /\ UNCHANGED << widgetVars, page >>

\* The response is sent; the relay keeps nothing of the request.
RelayDone ==
  /\ relay.pc = "done"
  /\ relay' = RelayIdle
  /\ UNCHANGED << widgetVars, page >>

InitRelay ==
  /\ WidgetInit({NoWindowConfig}, {[recognition |-> TRUE, synthesis |-> TRUE]})
  /\ relay = RelayIdle
  /\ page = NoPage

NextRelay ==
  \/ RelayReceive
  \/ RelayModelReturns
  \/ RelayModelThrows
  \/ RelayDone

SpecRelay == InitRelay /\ [][NextRelay]_vars

\* C10 (as claimed): in each variant a request with a method other than POST is
\* answered 405 {error: "Method not allowed"} without a call of the model.
C10_MethodGuard ==
  (relay.pc # "idle" /\ relay.req.method # "POST") =>
    /\ relay.pc = "done"
    /\ relay.res.status = 405
    /\ relay.res.body = [error |-> "Method not allowed"]
    /\ relay.calls = 0

(***************************************************************************)
(* Properties of the relay.                                                *)
(***************************************************************************)
GenericError == [error |-> "Failed to generate response"]
\* The request is handled (received, not yet forgotten) and is a POST.
HandlingPost == relay.pc # "idle" /\ relay.req.method = "POST"
\* What the request's body holds once parsed; nothing when there is no body.
Payload == relay.req.body.data
Supplied(k) == k \in DOMAIN Payload
\* The lines of the prompt up to its first empty line.
SystemBlock(prompt) ==
  LET blanks == {i \in 1..Len(prompt) : prompt[i] = ""}
      first  == IF blanks = {} THEN Len(prompt) + 1
                ELSE CHOOSE i \in blanks : \A j \in blanks : i <= j
  IN  SubSeq(prompt, 1, first - 1)
RoleStatement == "You are an embedded website assistant widget."
ContextLine(c) == "Context from host site: " \o c
LangLine(l) == "Respond in language code: " \o l
RoleLabel == [user |-> "USER", assistant |-> "ASSISTANT", system |-> "SYSTEM"]

\* C11 (as claimed): a POST is answered once: 200 with a body holding reply
\* only when the model call returns, 500 with the generic error body when the
\* body cannot be parsed or the model call throws, and nothing else.
C11_PostAnsweredOnce ==
  [][ /\ (RelayReceive /\ relay'.req.method = "POST") =>
           \/ relay'.pc = "calling" /\ relay'.calls = 1
           \/ /\ relay'.pc = "done" /\ relay'.calls = 0
              /\ relay'.res.status = 500 /\ relay'.res.body = GenericError
      /\ RelayModelReturns =>
           /\ relay'.pc = "done" /\ relay'.res.status = 200
           /\ DOMAIN relay'.res.body = {"reply"}
           /\ relay'.res.body.reply \in ModelTexts
      /\ RelayModelThrows =>
           /\ relay'.pc = "done" /\ relay'.res.status = 500
           /\ relay'.res.body = GenericError
      /\ relay.pc = "done" => relay'.pc = "idle" ]_vars

\* C12 (as claimed): a POST whose body is an object, a string of JSON or absent
\* reaches the model, whatever it leaves out: the prompt has no conversation
\* line without messages, no context line without context and no language line
\* without lang, and the answer is 200 when the model returns.
C12_AbsentFieldsAccepted ==
  (HandlingPost /\ relay.req.body.kind # "malformed") =>
    /\ relay.calls = 1
    /\ ~Supplied("messages") =>
         \A i \in 1..Len(relay.prompt) :
            relay.prompt[i] \in {RoleStatement, "", "Conversation so far:", "ASSISTANT:"}
              \cup {ContextLine(d.context) : d \in {x \in RelayPayloads : "context" \in DOMAIN x}}
              \cup {LangLine(d.lang) : d \in {x \in RelayPayloads : "lang" \in DOMAIN x}}
    /\ ~Supplied("context") =>
         \A i \in 1..Len(relay.prompt) :
            relay.prompt[i] \notin
              {ContextLine(d.context) : d \in {x \in RelayPayloads : "context" \in DOMAIN x}}
    /\ ~Supplied("lang") =>
         \A i \in 1..Len(relay.prompt) :
            relay.prompt[i] \notin
              {LangLine(d.lang) : d \in {x \in RelayPayloads : "lang" \in DOMAIN x}}
    /\ relay.pc = "done" => relay.res.status \in {200, 500}

\* The lines the claimed rule gives: a line for every value the request holds.
LinesIfSupplied ==
  << RoleStatement >>
    \o (IF Supplied("context") THEN << ContextLine(Payload.context) >> ELSE << >>)
    \o (IF Supplied("lang") THEN << LangLine(Payload.lang) >> ELSE << >>)
\* The lines the code gives: a line for every value that is a non-empty string.
LinesIfNonEmpty ==
  << RoleStatement >>
    \o (IF Supplied("context") /\ Payload.context # ""
        THEN << ContextLine(Payload.context) >> ELSE << >>)
    \o (IF Supplied("lang") /\ Payload.lang # ""
        THEN << LangLine(Payload.lang) >> ELSE << >>)

\* C13 (as claimed): the system-instruction block of the prompt the model is
\* called with is the role statement, then the context line if and only if
\* the request holds a context, then the language line if and only if it
\* holds a lang.
C13_LinesIffSupplied ==
  (HandlingPost /\ relay.calls = 1) => SystemBlock(relay.prompt) = LinesIfSupplied

\* C13 (amended): the context line and the language line are there if and only
\* if the value is supplied and is not the empty string; the block has no
\* empty line and holds between one and three lines, in that order.
C13_LinesIffNonEmpty ==
  (HandlingPost /\ relay.calls = 1) =>
    /\ SystemBlock(relay.prompt) = LinesIfNonEmpty
    /\ Len(SystemBlock(relay.prompt)) \in 1..3
    /\ relay.prompt[Len(SystemBlock(relay.prompt)) + 2] = "Conversation so far:"

\* C13 witness: the model has answered a request with a context and a lang,
\* and the block of its prompt had three lines.
C13_Witness ==
  /\ HandlingPost /\ relay.pc = "done" /\ relay.res.status = 200
  /\ Supplied("context") /\ Payload.context = "You are a front-end expert"
  /\ Supplied("lang") /\ Payload.lang = "hi"
  /\ Len(SystemBlock(relay.prompt)) = 3

\* The messages of the request, none when it holds no messages.
SentMessages == IF Supplied("messages") THEN Payload.messages ELSE << >>

\* C14: the prompt the model is called with, as lines, is the system block, an
\* empty line, the heading, one line per message of the request in the
\* request's order, each the upper-cased role, ": " and the content (one empty
\* line when there is no message), an empty line, and "ASSISTANT:" last; the
\* model is called once, with that one string.
C14_PromptIsFlattenedConversation ==
  (HandlingPost /\ relay.calls = 1) =>
    LET prompt == relay.prompt
        k      == Len(SystemBlock(prompt))
        n      == Len(SentMessages)
        shown  == IF n = 0 THEN 1 ELSE n
    IN  /\ k >= 1 /\ prompt[1] = RoleStatement
        /\ Len(prompt) = k + 2 + shown + 2
        /\ prompt[k + 1] = "" /\ prompt[k + 2] = "Conversation so far:"
        /\ \A i \in 1..n :
              prompt[k + 2 + i] =
                RoleLabel[SentMessages[i].role] \o ": " \o SentMessages[i].content
        /\ n = 0 => prompt[k + 3] = ""
        /\ prompt[Len(prompt) - 1] = "" /\ prompt[Len(prompt)] = "ASSISTANT:"
        /\ \A i \in 1..Len(prompt) : prompt[i] \in STRING

\* C14 witness: the model is being called with a prompt of a three-line
\* system block and a conversation of three messages.
C14_Witness ==
  /\ HandlingPost /\ relay.pc = "calling" /\ relay.calls = 1
  /\ Len(SentMessages) = 3 /\ Len(SystemBlock(relay.prompt)) = 3
  /\ relay.prompt[8] = "SYSTEM: Be brief"

\* C15 (as claimed): every response carries Access-Control-Allow-Origin equal
\* to the request's origin, or "*" without one, Access-Control-Allow-Methods
\* "POST, OPTIONS" and Access-Control-Allow-Headers "Content-Type".
C15_CorsOnEveryResponse ==
  relay.pc = "done" =>
    LET headers == relay.res.headers
    IN  /\ {"Access-Control-Allow-Origin", "Access-Control-Allow-Methods",
            "Access-Control-Allow-Headers"} \subseteq DOMAIN headers
        /\ headers["Access-Control-Allow-Origin"] =
             (IF relay.req.origin = Undefined THEN "*" ELSE relay.req.origin)
        /\ headers["Access-Control-Allow-Methods"] = "POST, OPTIONS"
        /\ headers["Access-Control-Allow-Headers"] = "Content-Type"

(***************************************************************************)
(* window.AgentWidget with several widget instances in one page.  The      *)
(* effect of an instance creates an api object and assigns it to           *)
(* window.AgentWidget; its cleanup deletes window.AgentWidget if it is     *)
(* that object.  The object's functions set the open state of the          *)
(* instance that created it.                                               *)
(***************************************************************************)
\* Fault model for Cleanup: delete window.AgentWidget whoever installed it.
CleanupAlwaysDeletes(current, api) == NoApi

\* if (window.AgentWidget === api) delete window.AgentWidget;
Cleanup(current, api) == IF current = api THEN NoApi ELSE current

\* An instance mounts: its open state starts false and its effect runs.
Mount(i) ==
  /\ page.api[i] = NoApi
  /\ page.mounts < MaxMounts
  /\ page' = [page EXCEPT !.mounts = @ + 1,
                          !.api[i] = page.mounts + 1,
                          !.open[i] = FALSE,
                          !.AgentWidget = page.mounts + 1]
  /\ UNCHANGED << widgetVars, relay >>

\* An instance unmounts: the effect's cleanup runs.
Unmount(i) ==
  /\ page.api[i] # NoApi
  /\ page' = [page EXCEPT !.api[i] = NoApi,
                          !.open[i] = FALSE,
                          !.AgentWidget = Cleanup(page.AgentWidget, page.api[i])]
  /\ UNCHANGED << widgetVars, relay >>

\* The host calls window.AgentWidget.open(), .close() or .toggle(): a state
\* update of the instance that created the object.
PageCall(op) ==
  /\ page.AgentWidget # NoApi
  /\ \E i \in Instances :
       /\ page.api[i] = page.AgentWidget
       /\ page' = [page EXCEPT !.open[i] =
                     CASE op = "open"   -> OpenUpdater(page.open[i])
                       [] op = "close"  -> CloseUpdater(page.open[i])
                       [] op = "toggle" -> ToggleUpdater(page.open[i])]
  /\ UNCHANGED << widgetVars, relay >>

MountSome == \E i \in Instances : Mount(i)
UnmountSome == \E i \in Instances : Unmount(i)
PageCallSome == \E op \in {"open", "close", "toggle"} : PageCall(op)

InitPage ==
  /\ WidgetInit({NoWindowConfig}, {[recognition |-> TRUE, synthesis |-> TRUE]})
  /\ relay = RelayIdle
  /\ page = NoPage

NextPage ==
  \/ MountSome
  \/ UnmountSome
  \/ PageCallSome

SpecPage == InitPage /\ [][NextPage]_vars

\* The instance mounted or unmounted by a step.
Mounted(i) == page.api[i] = NoApi /\ page'.api[i] # NoApi
Unmounted(i) == page.api[i] # NoApi /\ page'.api[i] = NoApi

\* C16: after an instance mounts, window.AgentWidget is the object that
\* instance installed; when an instance unmounts, window.AgentWidget is removed
\* if it is that instance's object and is left as it is otherwise; a defined
\* window.AgentWidget is the object of a mounted instance, and a call through
\* it changes the open state of that instance only.
C16_ControlObjectOwnership ==
  /\ [](page.AgentWidget # NoApi =>
          \E i \in Instances : page.api[i] = page.AgentWidget)
  /\ [][ \A i \in Instances :
           /\ Mounted(i) => page'.AgentWidget = page'.api[i]
           /\ Unmounted(i) =>
                /\ page.AgentWidget = page.api[i] => page'.AgentWidget = NoApi
                /\ page.AgentWidget # page.api[i] => page'.AgentWidget = page.AgentWidget
           /\ (page'.api = page.api /\ page'.open[i] # page.open[i]) =>
                page.AgentWidget = page.api[i] ]_vars

\* C16 witness: the first instance is unmounted, the second is mounted and
\* owns window.AgentWidget, installed after the first one's, and is open.
C16_Witness ==
  /\ page.api["first"] = NoApi /\ page.api["second"] = 2
  /\ page.AgentWidget = 2 /\ page.open["second"]

\* C17 (as claimed): a step hands an utterance to the speech synthesis only if
\* the widget is in voice mode with voice enabled in that step, the step
\* appends a reply, and the utterance is that reply, never the fallback.
C17_SpokenOnlyInVoiceMode ==
  [][ spoken' # spoken =>
        /\ mode = "voice" /\ VoiceEnabled(cfg)
        /\ Len(spoken') = Len(spoken) + 1
        /\ Len(messages') = Len(messages) + 1
        /\ messages'[Len(messages')].role = "assistant"
        /\ spoken'[Len(spoken')].text = messages'[Len(messages')].text
        /\ spoken'[Len(spoken')].text # FallbackText ]_vars

(***************************************************************************)
(* Properties of the language selection and of speech recognition.         *)
(***************************************************************************)
AllLangs == {"en", "hi", "es"}
\* The number of running recognition sessions whose language is l.
Sessions(r, o, l) ==
  (IF r.active /\ r.lang = l THEN 1 ELSE 0)
    + Cardinality({i \in 1..Len(o) : o[i] = l})

\* C18: a submission accepted carries the selected language in its request and
\* in its user message; the selected language changes to a language of the
\* list only, and the step that changes it leaves every running session with
\* its language; a step that starts a session starts it in the selected
\* language.
C18_LanguageOfLaterTurns ==
  [][ /\ Accepts =>
           /\ \A r \in requests' \ requests : r.body.lang = lang
           /\ messages'[Len(messages')].role = "user"
           /\ messages'[Len(messages')].lang = lang
           /\ lang' = lang
      /\ lang' # lang =>
           /\ lang' \in SeqRange(LanguageList(cfg))
           /\ \A l \in AllLangs : Sessions(rec', orphans', l) = Sessions(rec, orphans, l)
      /\ (\E l \in AllLangs : Sessions(rec', orphans', l) > Sessions(rec, orphans, l)) =>
           /\ lang' = lang
           /\ \A l \in AllLangs :
                Sessions(rec', orphans', l) =
                  Sessions(rec, orphans, l) + (IF l = lang THEN 1 ELSE 0) ]_vars

\* C18 witness: after the selection of hi during a session in en, that session
\* still runs in en, a session started later runs in hi, and a submission
\* accepted later carries hi.
C18_Witness ==
  /\ lang = "hi" /\ orphans = <<"en">> /\ rec.active /\ rec.lang = "hi"
  /\ \E r \in requests : r.body.lang = "hi"
  /\ messages # << >> /\ messages[Len(messages)].lang = "hi"

\* The mic control is shown, idle, and start() would throw.
StartWouldThrow ==
  /\ phase = "mounted" /\ view.open /\ mode = "voice"
  /\ rec.exists /\ ~view.listening /\ StartThrows(rec)

\* C19: when start() throws, the press of the mic control leaves the widget
\* idle, with the mic control there to be pressed again, and leaves the
\* messages, the input, the mode, the open state and the requests as they
\* were.
C19_StartFailureReturnsToIdle ==
  /\ [](StartWouldThrow =>
          ENABLED ( /\ ClickMic
                    /\ ~listening' /\ ~view'.listening
                    /\ mode' = "voice" /\ rec'.exists
                    /\ UNCHANGED << messages, input, mode, open, requests, loading >> ))
  /\ [][ (StartWouldThrow /\ ClickMic) =>
           /\ ~listening'
           /\ UNCHANGED << messages, input, mode, open, requests, loading >> ]_vars

\* C19 witness: the session of the object the ref holds runs while the widget
\* is idle, after the session of a replaced object has ended.
C19_Witness == StartWouldThrow /\ ~listening /\ lang = "hi" /\ rec.lang = "hi"

(***************************************************************************)
(* The widget with voice enabled at its first render, in a browser with    *)
(* speech recognition (without either, no session is ever started), with   *)
(* an engine that ends every session it started and with React rendering   *)
(* every update.                                                           *)
(***************************************************************************)
\* The host configurations with which the first render has voice enabled.
VoiceWindows == {w \in WidgetWindows : VoiceEnabled(InitialConfig(w))}

InitFair ==
  /\ WidgetInit(VoiceWindows, {[recognition |-> TRUE, synthesis |-> TRUE]})
  /\ relay = RelayIdle
  /\ page = NoPage

SpecFair == InitFair /\ [][Next]_vars /\ SF_vars(RecEnd) /\ WF_vars(Render)

\* The number of running recognition sessions.
Running(r, o) == (IF r.active THEN 1 ELSE 0) + Len(o)

\* C20: a step in which a session ends, or in which the user presses the mic
\* control while it shows listening, leaves the widget idle; and listening
\* always leads to idle.
C20_ListeningEnds ==
  /\ [][ /\ Running(rec', orphans') < Running(rec, orphans) => ~listening'
         /\ (ClickMic /\ rec.exists /\ view.listening) => ~listening' ]_vars
  /\ (listening ~> ~listening)

\* C20 witness: the engine has ended the session on its own: the widget is
\* idle, no session runs, and the transcript it heard is in the input.
C20_Witness ==
  /\ ~listening /\ rec.exists /\ ~rec.active /\ orphans = << >>
  /\ input = <<"a">> /\ mode = "voice" /\ view.listening

\* C21 (as claimed): while the widget is listening it is open and in voice
\* mode.
C21_ListeningInsideOpenVoice == listening => (open /\ mode = "voice")

\* A step that starts a recognition session.
StartsSession == ~rec.active /\ rec'.active

\* C22 (as claimed): a session is started in the language selected at that
\* moment, on an object set for continuous capture with interim results.
C22_SessionConfiguration ==
  [][ StartsSession =>
        /\ rec'.lang = lang
        /\ rec'.continuous
        /\ rec'.interimResults ]_vars

(***************************************************************************)
(* Properties of overlapping requests, of the loading flag and of the      *)
(* answers without a reply.                                                *)
(***************************************************************************)
\* C23: a submission accepted while requests are in flight leaves them in
\* flight; a request leaves the set only by completing, one at a time, with
\* its assistant message appended in that step; and whenever the updates are
\* all rendered, each request in flight can be the next to complete, whatever
\* the order of issue.
C23_OverlappingRequests ==
  /\ [][ /\ Accepts => requests \subseteq requests'
         /\ Settles =>
              /\ requests' \subseteq requests
              /\ Cardinality(requests \ requests') = 1
              /\ Len(messages') > Len(messages)
              /\ \A i \in (Len(messages) + 1)..Len(messages') :
                    messages'[i].role = "assistant" ]_vars
  /\ [](Staleness = 0 =>
          \A r \in requests : ENABLED (Settle /\ r \notin requests'))

\* C23 witness: two user messages in a row, then the reply to the second
\* submission (made in hi), while the request of the first (made in en) is
\* still in flight.
C23_Witness ==
  /\ Len(messages) = 3
  /\ messages[1].role = "user" /\ messages[1].lang = "en"
  /\ messages[2].role = "user" /\ messages[2].lang = "hi"
  /\ messages[3].role = "assistant" /\ messages[3].lang = "hi"
  /\ messages[3].text = <<"ok">>
  /\ \E r \in requests : requests = {r} /\ r.id = messages[1].id

\* C24 (as claimed): while a request is in flight the loading flag is set.
C24_LoadingCoversRequests == requests # {} => loading

\* C25 (as claimed): the completion of a request with a JSON body without a
\* reply appends one assistant message with the empty text, hands nothing to
\* the speech synthesis and clears the loading flag; and a completion appends
\* the fallback text only if the fetch or the parsing of the body threw.
C25_NoReplyIsNotAFailure ==
  [][ \A r \in requests : \A o \in Outcomes :
        Complete(r, o) =>
          /\ o.kind = "noReply" =>
               /\ Len(messages') = Len(messages) + 1
               /\ messages'[Len(messages')].role = "assistant"
               /\ messages'[Len(messages')].text = EmptyText
               /\ spoken' = spoken
               /\ ~loading'
          /\ (\E i \in (Len(messages) + 1)..Len(messages') :
                 messages'[i].text = FallbackText)
               => o.kind \in {"fetchThrows", "jsonThrows"} ]_vars

\* What open, close and toggle leave alone.
ConversationState ==
  << messages, input, mode, lang, loading, listening, requests, rec, orphans,
     spoken, cfg, nextId >>

\* C26: a step that opens or closes the widget, by its buttons or by the
\* host's open, close or toggle, changes nothing of the conversation state;
\* and a request in flight while the widget is closed can still complete,
\* with its assistant message appended and the widget still closed.
C26_OpenCloseFrame ==
  /\ [][ /\ open' # open => UNCHANGED ConversationState
         /\ (ClickLauncher \/ ClickClose \/ HostOpen \/ HostClose \/ HostToggle)
              => UNCHANGED ConversationState ]_vars
  /\ []((~open /\ Staleness = 0) =>
          \A r \in requests :
             ENABLED ( /\ Settle /\ r \notin requests'
                       /\ ~open' /\ Len(messages') > Len(messages) ))

\* C26 witness: the widget was closed, by its close button, with a request in
\* flight.
C26_Witness ==
  /\ ~open /\ ~view.open /\ loading
  /\ Len(messages) = 1 /\ Cardinality(requests) = 1

\* C27 (as claimed): while the widget is idle no recognition session runs.
C27_IdleMeansNoSession == ~listening => (~rec.active /\ orphans = << >>)

====
